---- MODULE Spec2Model ----
(***************************************************************************)
(* FinHealth frontend: authentication-token plumbing, tenant (company)     *)
(* selection and the centralized financial data store, as a state machine. *)
(*                                                                         *)
(* One step of the model is one browser task: a user gesture, a page load, *)
(* the arrival of an HTTP response at the axios response interceptors      *)
(* (Receive), or the caller's continuation of that response (Continue),    *)
(* each followed by the React renders and effects it causes.               *)
(***************************************************************************)
EXTENDS Integers, Sequences, FiniteSets, TLC

None == "none"

\* Accounts, and company identifiers.
Users == {"u1", "u2"}
Companies == {"c1", "c2"}

\* The user acts only while fewer than this many HTTP requests wait for
\* their response.
MaxInFlight == 1

\* In LoginSpec a login is submitted again while fewer than this many
\* requests wait.
MaxAuthInFlight == 2

\* The repository holds two AuthContext sources, which differ in checkAuth:
\* frontend/src/contexts/AuthContext.js and the unnamed part_003.
Builds == {"frontend", "unnamed"}

Slices == {"dashboardSummary", "financialHealth", "riskAnalysis", "creditEvaluation"}

AuthPaths == {"/login", "/register"}

ProtectedPaths ==
  {"/dashboard", "/financial-health", "/risk-analysis", "/credit-evaluation",
   "/forecasting", "/benchmarking", "/reports", "/notifications",
   "/data-upload", "/settings", "/profile"}

\* The paths the browser is pointed at: the auth pages, "/" for the paths
\* that only the catch-all routes match, the pages with behaviour of their
\* own and "/profile" for the other pages of the layout.
Paths ==
  AuthPaths \cup {"/", "/dashboard", "/data-upload", "/settings", "/profile"}

\* Which of the four requests of one fetchAllFinancialData are fulfilled,
\* when not all are rejected.
FetchOutcomes ==
  {Slices, {"dashboardSummary"}, Slices \ {"dashboardSummary"}}

Statuses == {"200", "401", "403company", "403", "500"}

\* localStorage 'financialData_<id>' entries, which loadCachedData reads.
\* Now is what new Date() gives at the call, in ms.
Now == 1000000

Ages == {-1, 0, 5 * 60 * 1000 - 1, 5 * 60 * 1000, 5 * 60 * 1000 + 1}

\* new Date(timestamp): a time in ms, or an Invalid Date
Timestamps ==
  {[valid |-> TRUE, ms |-> Now - a] : a \in Ages} \cup {[valid |-> FALSE, ms |-> 0]}

DataA ==
  [dashboard |-> "a1", health |-> "a2", risk |-> "a3", credit |-> "a4",
   forecast |-> "a5", benchmark |-> "a6", monthly |-> "a7"]

DataB ==
  [dashboard |-> "b1", health |-> "b2", risk |-> "b3", credit |-> "b4",
   forecast |-> "b5", benchmark |-> "b6", monthly |-> "b7"]

\* data: {} gives undefined for each field
DataEmpty ==
  [dashboard |-> "undefined", health |-> "undefined", risk |-> "undefined",
   credit |-> "undefined", forecast |-> "undefined", benchmark |-> "undefined",
   monthly |-> "undefined"]

\* json: "absent" no entry; "garbage" not JSON; "null" the JSON null;
\* "nodata" an object with a timestamp and no data; "object" an object with
\* timestamp and data
NoEntry ==
  [json |-> "absent", timestamp |-> [valid |-> FALSE, ms |-> 0], data |-> DataEmpty]

Entries ==
  {NoEntry, [NoEntry EXCEPT !.json = "garbage"], [NoEntry EXCEPT !.json = "null"]}
  \cup {[json |-> "nodata", timestamp |-> ts, data |-> DataEmpty] : ts \in Timestamps}
  \cup {[json |-> "object", timestamp |-> ts, data |-> d] :
          ts \in Timestamps, d \in {DataA, DataB, DataEmpty}}

\* company.name of each company, as its characters
CompanyName(c) == IF c = "c1" THEN <<"A", "c">> ELSE <<"B", "x">>

\* What the user types into the confirmation input of DeleteCompanyModal
Texts == {<<"A", "c">>, <<"a", "c">>, <<"A", "c", " ">>, <<"B", "x">>}

\* DataUpload.js: the upload limits
ALLOWED_TYPES ==
  {"text/csv", "application/vnd.ms-excel",
   "application/vnd.openxmlformats-officedocument.spreadsheetml.sheet",
   "application/pdf"}

ALLOWED_EXTS ==
  {<<".", "c", "s", "v">>, <<".", "x", "l", "s", "x">>, <<".", "x", "l", "s">>,
   <<".", "p", "d", "f">>}

MAX_SIZE_MB == 10

\* The files the user drops or picks: name (a string, as its characters),
\* MIME type and size in bytes.
Files ==
  {[name |-> <<"r", ".", "c", "s", "v">>, type |-> "text/csv", size |-> 1024],
   [name |-> <<"Q", "1", ".", "X", "L", "S", "X">>,
    type |-> "application/vnd.openxmlformats-officedocument.spreadsheetml.sheet",
    size |-> 10 * 1024 * 1024],
   [name |-> <<"S", ".", "P", "D", "F">>, type |-> "", size |-> 1],
   [name |-> <<"b", ".", "c", "s", "v">>, type |-> "text/csv",
    size |-> 10 * 1024 * 1024 + 1],
   [name |-> <<"n", ".", "t", "x", "t">>, type |-> "text/csv", size |-> 10],
   [name |-> <<"m", ".", "x", "l", "s">>, type |-> "application/octet-stream",
    size |-> 10],
   [name |-> <<"c", "s", "v">>, type |-> "text/csv", size |-> 0]}

VARIABLES
  build,              \* which AuthContext source the bundle was built from
  path,               \* window.location.pathname
  lsToken,            \* localStorage 'token'
  lsCompanyId,        \* localStorage 'currentCompanyId'
  axAuth,             \* axios.defaults.headers.common['Authorization']
  user,               \* AuthContext user
  authLoading,        \* AuthContext loading
  companies,          \* CompanyContext companies
  selectedCompany,    \* CompanyContext selectedCompany (its id)
  initialLoading,     \* FinancialDataContext state.initialLoading
  loading,            \* FinancialDataContext state.loading
  dashboardSummary,   \* FinancialDataContext slices: None, or the X-Company-ID
  financialHealth,    \*   of the request whose response the slice holds
  riskAnalysis,
  creditEvaluation,
  forecasting,
  benchmarking,
  monthlyData,
  fdSelectedCompany,  \* FinancialDataContext state.selectedCompany
  file,               \* DataUpload file: empty, or the file held
  confirmText,        \* DeleteCompanyModal confirmText
  cache,              \* localStorage 'financialData_<id>', by company id
  cacheHit,           \* what the last call of loadCachedData returned
  inflight,           \* requests sent and not yet answered
  delivering,         \* the response past the interceptors and not yet at its
                      \*   caller, if there is one
  reloadPending       \* window.location.reload() was called in this task

vars ==
  <<build, path, lsToken, lsCompanyId, axAuth, user, authLoading, companies,
    selectedCompany, initialLoading, loading, dashboardSummary, financialHealth,
    riskAnalysis, creditEvaluation, fdSelectedCompany, file, confirmText,
    forecasting, benchmarking, monthlyData, cache, cacheHit,
    inflight, delivering, reloadPending>>

----------------------------------------------------------------------------
(* The browser-side state as one record, so that a handler and the renders *)
(* it causes compose.  tc, ts and pending live only inside one step:       *)
(*   tc      "same"/"fresh" when setCompanies got a new array              *)
(*           ("fresh": of new objects, as after fetchCompanies)            *)
(*   ts      setSelectedCompany got an object other than the held one      *)
(*   tu      setUser got a new user object                                 *)
(*   pending axios calls made in this render round                         *)
(*   ret     what the last call of loadCachedData returned                 *)

Cur ==
  [path |-> path, lsToken |-> lsToken, lsCompanyId |-> lsCompanyId,
   axAuth |-> axAuth, user |-> user, authLoading |-> authLoading,
   companies |-> companies, selectedCompany |-> selectedCompany,
   initialLoading |-> initialLoading, loading |-> loading,
   dashboardSummary |-> dashboardSummary, financialHealth |-> financialHealth,
   riskAnalysis |-> riskAnalysis, creditEvaluation |-> creditEvaluation,
   fdSelectedCompany |-> fdSelectedCompany, file |-> file,
   confirmText |-> confirmText,
   forecasting |-> forecasting, benchmarking |-> benchmarking,
   monthlyData |-> monthlyData, cache |-> cache, cacheHit |-> cacheHit,
   inflight |-> inflight, reloadPending |-> reloadPending,
   tc |-> "no", ts |-> FALSE, tu |-> FALSE, pending |-> {}, ret |-> "none"]

Commit(s) ==
  /\ path' = s.path
  /\ lsToken' = s.lsToken
  /\ lsCompanyId' = s.lsCompanyId
  /\ axAuth' = s.axAuth
  /\ user' = s.user
  /\ authLoading' = s.authLoading
  /\ companies' = s.companies
  /\ selectedCompany' = s.selectedCompany
  /\ initialLoading' = s.initialLoading
  /\ loading' = s.loading
  /\ dashboardSummary' = s.dashboardSummary
  /\ financialHealth' = s.financialHealth
  /\ riskAnalysis' = s.riskAnalysis
  /\ creditEvaluation' = s.creditEvaluation
  /\ fdSelectedCompany' = s.fdSelectedCompany
  /\ file' = s.file
  /\ confirmText' = s.confirmText
  /\ forecasting' = s.forecasting
  /\ benchmarking' = s.benchmarking
  /\ monthlyData' = s.monthlyData
  /\ cache' = s.cache
  /\ cacheHit' = s.cacheHit
  /\ inflight' = s.inflight
  /\ reloadPending' = s.reloadPending

----------------------------------------------------------------------------
(* axiosSetup: the request interceptor.                                    *)

Url(kind) ==
  CASE kind = "login" -> "/api/auth/login"
    [] kind = "register" -> "/api/auth/register"
    [] kind = "profile" -> "/api/user/profile"
    [] kind = "companies" -> "/api/company/"
    [] kind = "create" -> "/api/company/create"
    [] kind = "switch" -> "/api/company/switch"
    [] kind = "delete" -> "/api/company/{id}"
    [] kind = "fetch" -> "/api/dashboard-summary"
    [] kind = "upload" -> "/api/data/upload"

\* config.url?.includes('/api/auth/login') || ...includes('/api/auth/register')
AuthExempt(url) == url \in {"/api/auth/login", "/api/auth/register"}

\* A request interceptor that sets Authorization and no X-Company-ID.
RequestInterceptorNoCompany(config, tok, cid) ==
  IF AuthExempt(config.url) THEN config
  ELSE [config EXCEPT !.auth = IF tok # None THEN tok ELSE @]

\* A header value `Bearer ${t}` is modelled by t.
RequestInterceptor(config, tok, cid) ==
  IF AuthExempt(config.url) THEN config
  ELSE [config EXCEPT !.auth = IF tok # None THEN tok ELSE @,
                      !.cid = IF cid # None THEN cid ELSE @]

\* axios merges defaults.headers.common into the request, then runs the
\* request interceptor; sentToken/sentCompanyId record localStorage as it
\* was when the interceptor ran.
Request(kind, arg, s) ==
  RequestInterceptor(
    [kind |-> kind, url |-> Url(kind), arg |-> arg, auth |-> s.axAuth,
     cid |-> None, sentToken |-> s.lsToken, sentCompanyId |-> s.lsCompanyId],
    s.lsToken, s.lsCompanyId)

Call(s, kind, arg) == [s EXCEPT !.pending = @ \cup {<<kind, arg>>}]

\* The interceptors of the calls made in a render round run in microtasks
\* after it, so they read localStorage as the round left it.
Flush(s) ==
  [s EXCEPT !.inflight = @ \cup {Request(c[1], c[2], s) : c \in s.pending},
            !.pending = {}]

----------------------------------------------------------------------------
(* App.js: AppLayout.                                                      *)

\* const loading = authLoading || (user && initialLoading)
CombinedLoading(s) == s.authLoading \/ (s.user # None /\ s.initialLoading)

\* An AppLayout whose layout routes do not look at user.
RenderedWithoutUserGate(s) ==
  IF CombinedLoading(s) THEN "loading"
  ELSE IF s.path \in AuthPaths \cup ProtectedPaths THEN s.path ELSE "navigate"

\* The element AppLayout returns: the loading screen, a page, or "navigate"
\* when the matching route is a <Navigate>.
Rendered(s) ==
  IF CombinedLoading(s) THEN "loading"
  ELSE IF s.user = None
       THEN IF s.path \in AuthPaths THEN s.path ELSE "navigate"
       ELSE IF s.path \in ProtectedPaths THEN s.path ELSE "navigate"

NavigateTarget(s) == IF s.user = None THEN "/login" ELSE "/dashboard"

LayoutShown(s) == Rendered(s) \in ProtectedPaths

----------------------------------------------------------------------------
(* FinancialDataContext.                                                   *)

fetchAllFinancialData(s, companyId) ==
  IF companyId = None THEN s
  ELSE Call([s EXCEPT !.loading = TRUE], "fetch", companyId)

\* A loadCachedData that also uses an entry that is exactly 5 minutes old.
loadCachedDataUpToFiveMinutes(s, companyId) ==
  IF companyId = None THEN [s EXCEPT !.ret = "undefined"]
  ELSE LET cached == s.cache[companyId]
           cacheAge == Now - cached.timestamp.ms
       IN IF cached.json \in {"absent", "garbage", "null"}
          THEN [s EXCEPT !.ret = "false"]
          ELSE IF cached.timestamp.valid /\ cacheAge <= 5 * 60 * 1000
               THEN IF cached.json = "nodata"
                    THEN [s EXCEPT !.ret = "false"]
                    ELSE [s EXCEPT !.dashboardSummary = cached.data.dashboard,
                                   !.financialHealth = cached.data.health,
                                   !.riskAnalysis = cached.data.risk,
                                   !.creditEvaluation = cached.data.credit,
                                   !.forecasting = cached.data.forecast,
                                   !.benchmarking = cached.data.benchmark,
                                   !.monthlyData = cached.data.monthly,
                                   !.initialLoading = FALSE,
                                   !.ret = "true"]
               ELSE [s EXCEPT !.ret = "false"]

\* loadCachedData; ret is what it returns.  JSON.parse of an entry that is
\* not JSON, the destructuring of null and data.dashboard of a missing data
\* throw, before anything is dispatched, and the catch returns false; a
\* comparison with the NaN age of an Invalid Date is false.
loadCachedData(s, companyId) ==
  IF companyId = None THEN [s EXCEPT !.ret = "undefined"]
  ELSE LET cached == s.cache[companyId]
           cacheAge == Now - cached.timestamp.ms
       IN IF cached.json = "absent" THEN [s EXCEPT !.ret = "false"]
          ELSE IF cached.json \in {"garbage", "null"}
               THEN [s EXCEPT !.ret = "false"]
          ELSE IF cached.timestamp.valid /\ cacheAge < 5 * 60 * 1000
               THEN IF cached.json = "nodata"
                    THEN [s EXCEPT !.ret = "false"]
                    ELSE [s EXCEPT !.dashboardSummary = cached.data.dashboard,
                                   !.financialHealth = cached.data.health,
                                   !.riskAnalysis = cached.data.risk,
                                   !.creditEvaluation = cached.data.credit,
                                   !.forecasting = cached.data.forecast,
                                   !.benchmarking = cached.data.benchmark,
                                   !.monthlyData = cached.data.monthly,
                                   !.initialLoading = FALSE,
                                   !.ret = "true"]
               ELSE [s EXCEPT !.ret = "false"]

clearCache(s, companyId) == [s EXCEPT !.cache[companyId] = NoEntry]

refreshAfterUpload(s) ==
  IF s.fdSelectedCompany # None
  THEN fetchAllFinancialData(clearCache(s, s.fdSelectedCompany), s.fdSelectedCompany)
  ELSE s

----------------------------------------------------------------------------
(* One render round: the effects whose dependencies differ between the     *)
(* previous render o and this render n, children first, applied to n.      *)

UserChanged(o, n) == n.tu \/ o.user # n.user
SelectedChanged(o, n) == n.ts \/ o.selectedCompany # n.selectedCompany
CompaniesChanged(o, n) == n.tc # "no" \/ o.companies # n.companies

NavigateEffect(n, s) ==
  IF Rendered(n) = "navigate" THEN [s EXCEPT !.path = NavigateTarget(n)] ELSE s

\* Dashboard.js: fetch on mount and when selectedCompany changes
DashboardEffect(o, n, s) ==
  IF /\ Rendered(n) = "/dashboard"
     /\ (Rendered(o) # "/dashboard" \/ SelectedChanged(o, n))
     /\ n.selectedCompany # None
  THEN fetchAllFinancialData(s, n.selectedCompany)
  ELSE s

\* DataUpload's state lives while the page is mounted
DataUploadUnmount(n, s) ==
  IF Rendered(n) # "/data-upload" THEN [s EXCEPT !.file = {}] ELSE s

\* DeleteCompanyModal's state lives while Settings renders it, which it
\* does with a company selected
SettingsUnmount(n, s) ==
  IF Rendered(n) # "/settings" \/ n.selectedCompany = None
  THEN [s EXCEPT !.confirmText = <<>>]
  ELSE s

\* AppLayout: initialLoading reset when unauthenticated
UnauthEffect(o, n, s) ==
  IF /\ (UserChanged(o, n) \/ o.authLoading # n.authLoading)
     /\ n.user = None /\ ~n.authLoading
  THEN [s EXCEPT !.initialLoading = FALSE]
  ELSE s

\* AppLayout: fetch financial data when company changes
CompanyChangeEffect(o, n, s) ==
  IF /\ (SelectedChanged(o, n) \/ UserChanged(o, n))
     /\ n.selectedCompany # None /\ n.user # None
  THEN LET c == loadCachedData(s, n.selectedCompany)
       IN IF c.ret = "true" THEN c
          ELSE fetchAllFinancialData(c, n.selectedCompany)
  ELSE s

\* AppLayout: initialLoading reset when companies are loaded
CompaniesLoadedEffect(o, n, s) ==
  IF /\ (UserChanged(o, n) \/ CompaniesChanged(o, n) \/ SelectedChanged(o, n))
     /\ n.user # None /\ n.companies # {} /\ n.selectedCompany = None
  THEN [s EXCEPT !.initialLoading = FALSE]
  ELSE s

fetchCompanies(s, then) == Call(s, "companies", then)

\* CompanyProvider: fetch companies when user is authenticated
UserEffect(o, n, s) ==
  IF UserChanged(o, n) /\ n.user # None THEN fetchCompanies(s, None) ELSE s

\* CompanyProvider: load selected company from localStorage
LoadSelectedEffect(o, n, s) ==
  IF CompaniesChanged(o, n) /\ s.lsCompanyId # None /\ n.companies # {}
  THEN IF s.lsCompanyId \in n.companies
       THEN [s EXCEPT !.selectedCompany = s.lsCompanyId,
                      !.ts = (n.tc = "fresh") \/ (n.selectedCompany # s.lsCompanyId)]
       ELSE [s EXCEPT !.lsCompanyId = None]
  ELSE s

RenderRound(o, n) ==
  LET s0 == [n EXCEPT !.tc = "no", !.ts = FALSE, !.tu = FALSE]
      s1 == NavigateEffect(n, s0)
      s2 == DashboardEffect(o, n, s1)
      s3 == SettingsUnmount(n, DataUploadUnmount(n, s2))
      s4 == UnauthEffect(o, n, s3)
      s5 == CompanyChangeEffect(o, n, s4)
      s6 == CompaniesLoadedEffect(o, n, s5)
      s7 == UserEffect(o, n, s6)
      s8 == LoadSelectedEffect(o, n, s7)
  IN Flush(s8)

Deps(s) ==
  <<s.user, s.authLoading, s.companies, s.selectedCompany, Rendered(s)>>

RECURSIVE Render(_, _)
Render(o, n) ==
  LET n2 == RenderRound(o, n)
  IN IF Deps(n2) = Deps(n) /\ ~n2.ts THEN n2 ELSE Render(n, n2)

----------------------------------------------------------------------------
(* Page load: React state starts over, localStorage stays, the requests of *)
(* the previous page are gone.                                             *)

Blank(p, tok, cid, fd) ==
  [path |-> p, lsToken |-> tok, lsCompanyId |-> cid, cache |-> fd,
   axAuth |-> None, user |-> None, authLoading |-> TRUE,
   companies |-> {}, selectedCompany |-> None,
   initialLoading |-> TRUE, loading |-> FALSE,
   dashboardSummary |-> None, financialHealth |-> None,
   riskAnalysis |-> None, creditEvaluation |-> None,
   forecasting |-> None, benchmarking |-> None, monthlyData |-> None,
   fdSelectedCompany |-> None, file |-> {}, confirmText |-> <<>>,
   cacheHit |-> "none", inflight |-> {}, reloadPending |-> FALSE,
   tc |-> "no", ts |-> FALSE, tu |-> FALSE, pending |-> {}, ret |-> "none"]

\* AuthProvider, first effect: axios default header from the stored token
AxiosDefaultsEffect(s) ==
  IF s.lsToken # None THEN [s EXCEPT !.axAuth = s.lsToken] ELSE s

\* frontend/src/contexts/AuthContext.js checkAuth, up to its await
checkAuthFrontend(s) ==
  IF s.lsToken = None
  THEN [s EXCEPT !.authLoading = FALSE]
  ELSE Call(s, "profile", None)

\* part_003 checkAuth
checkAuthUnnamed(s) ==
  [s EXCEPT !.lsToken = None, !.lsCompanyId = None, !.axAuth = None,
            !.authLoading = FALSE]

checkAuth(b, s) ==
  IF b = "frontend" THEN checkAuthFrontend(s) ELSE checkAuthUnnamed(s)

Mount(b, p, tok, cid, fd) ==
  LET m == Blank(p, tok, cid, fd)
  IN Render(m, Flush(checkAuth(b, AxiosDefaultsEffect(m))))

PageLoad(p) ==
  /\ Commit(Mount(build, p, lsToken, lsCompanyId, cache))
  /\ delivering' = {}
  /\ UNCHANGED build

Idle == delivering = {} /\ ~reloadPending

----------------------------------------------------------------------------
Init ==
  /\ build \in Builds
  /\ delivering = {}
  /\ LET m == Mount(build, "/", None, None, [c \in Companies |-> NoEntry])
     IN /\ path = m.path
        /\ lsToken = m.lsToken
        /\ lsCompanyId = m.lsCompanyId
        /\ axAuth = m.axAuth
        /\ user = m.user
        /\ authLoading = m.authLoading
        /\ companies = m.companies
        /\ selectedCompany = m.selectedCompany
        /\ initialLoading = m.initialLoading
        /\ loading = m.loading
        /\ dashboardSummary = m.dashboardSummary
        /\ financialHealth = m.financialHealth
        /\ riskAnalysis = m.riskAnalysis
        /\ creditEvaluation = m.creditEvaluation
        /\ fdSelectedCompany = m.fdSelectedCompany
        /\ file = m.file
        /\ confirmText = m.confirmText
        /\ forecasting = m.forecasting
        /\ benchmarking = m.benchmarking
        /\ monthlyData = m.monthlyData
        /\ cache = m.cache
        /\ cacheHit = m.cacheHit
        /\ inflight = m.inflight
        /\ reloadPending = m.reloadPending

\* The user reloads the page, or points the browser at another path.
Reload == Idle /\ PageLoad(path)

OpenUrl == Idle /\ \E p \in Paths \ {path} : PageLoad(p)

Handler(s) ==
  /\ Cardinality(inflight) < MaxInFlight
  /\ Commit(Render(Cur, Flush(s)))
  /\ UNCHANGED <<build, delivering>>

AuthHandler(s) ==
  /\ Cardinality(inflight) < MaxAuthInFlight
  /\ Commit(Render(Cur, Flush(s)))
  /\ UNCHANGED <<build, delivering>>

\* Login page: submit credentials of account u
Login ==
  /\ Idle /\ Rendered(Cur) = "/login"
  /\ \E u \in Users : Handler(Call(Cur, "login", u))

\* Login page, with a submission pending: the submit button is disabled
\* until the page is left by its link to /register and entered again by
\* the link back, which mounts a new Login; then submit
LoginAgain ==
  /\ Idle /\ Rendered(Cur) = "/login"
  /\ \E r \in inflight : r.kind = "login"
  /\ \E u \in Users : AuthHandler(Call(Cur, "login", u))

\* Register page: submit the form
Register ==
  /\ Idle /\ Rendered(Cur) = "/register"
  /\ Handler(Call(Cur, "register", None))

\* <Link> between the auth pages; Sidebar and Header links inside the layout
GoLink ==
  /\ Idle
  /\ \E p \in Paths \ {path} :
       /\ \/ Rendered(Cur) \in AuthPaths /\ p \in AuthPaths
          \/ LayoutShown(Cur) /\ p \in ProtectedPaths \cap Paths
       /\ Handler([Cur EXCEPT !.path = p])

\* A logout that leaves the axios default Authorization header in place.
logoutKeepsHeader(s) ==
  [s EXCEPT !.lsToken = None, !.lsCompanyId = None, !.user = None]

\* AuthContext logout (Header user menu)
logout(s) ==
  [s EXCEPT !.lsToken = None, !.lsCompanyId = None, !.axAuth = None,
            !.user = None]

Logout == Idle /\ LayoutShown(Cur) /\ Handler(logout(Cur))

\* CompanyContext selectCompany (Header company dropdown)
selectCompany(s, company) ==
  Call([s EXCEPT !.selectedCompany = company,
                 !.ts = (s.selectedCompany # company),
                 !.lsCompanyId = company],
       "switch", None)

SelectCompany ==
  /\ Idle /\ LayoutShown(Cur)
  /\ \E c \in companies : Handler(selectCompany(Cur, c))

\* CreateCompanyModal handleSubmit -> CompanyContext createCompany
CreateCompany ==
  /\ Idle /\ LayoutShown(Cur)
  /\ Handler(Call(Cur, "create", None))

\* DeleteCompanyModal: onChange of the confirmation input
TypeConfirmText ==
  /\ Idle /\ Rendered(Cur) = "/settings" /\ selectedCompany # None
  /\ \E txt \in Texts \ {confirmText} : Handler([Cur EXCEPT !.confirmText = txt])

\* A comparison that accepts any text starting with the company's name.
ConfirmMatchesPrefix(text, company) ==
  /\ Len(text) >= Len(CompanyName(company))
  /\ SubSeq(text, 1, Len(CompanyName(company))) = CompanyName(company)

\* DeleteCompanyModal: confirmText !== company.name, negated; the test of
\* handleDelete and of the delete button's disabled attribute
ConfirmMatches(text, company) == ~(text # CompanyName(company))

\* DeleteCompanyModal handleDelete, up to its await; Settings passes the
\* selected company as company
handleDelete(s) ==
  IF ~ConfirmMatches(s.confirmText, s.selectedCompany) THEN s
  ELSE Call(s, "delete", None)

\* A click on the delete button, which is disabled unless the text matches
DeleteCompany ==
  /\ Idle /\ Rendered(Cur) = "/settings" /\ selectedCompany # None
  /\ ConfirmMatches(confirmText, selectedCompany)
  /\ Handler(handleDelete(Cur))

\* String.prototype.toLowerCase and endsWith, on the letters of file names
UpperCase ==
  <<"A", "B", "C", "D", "E", "F", "G", "H", "I", "J", "K", "L", "M",
    "N", "O", "P", "Q", "R", "S", "T", "U", "V", "W", "X", "Y", "Z">>

LowerCase ==
  <<"a", "b", "c", "d", "e", "f", "g", "h", "i", "j", "k", "l", "m",
    "n", "o", "p", "q", "r", "s", "t", "u", "v", "w", "x", "y", "z">>

toLowerCase(str) ==
  [i \in 1..Len(str) |->
     IF \E k \in 1..Len(UpperCase) : UpperCase[k] = str[i]
     THEN LowerCase[CHOOSE k \in 1..Len(UpperCase) : UpperCase[k] = str[i]]
     ELSE str[i]]

endsWith(str, suffix) ==
  /\ Len(suffix) <= Len(str)
  /\ SubSeq(str, Len(str) - Len(suffix) + 1, Len(str)) = suffix

\* A validateFile without the size limit.
validateFileAnySize(f) ==
  IF ~(\E ext \in ALLOWED_EXTS : endsWith(toLowerCase(f.name), ext)) THEN FALSE
  ELSE IF f.type \notin ALLOWED_TYPES
          /\ ~endsWith(toLowerCase(f.name), <<".", "p", "d", "f">>) THEN FALSE
  ELSE TRUE

\* DataUpload validateFile
validateFile(f) ==
  IF ~(\E ext \in ALLOWED_EXTS : endsWith(toLowerCase(f.name), ext)) THEN FALSE
  ELSE IF f.type \notin ALLOWED_TYPES
          /\ ~endsWith(toLowerCase(f.name), <<".", "p", "d", "f">>) THEN FALSE
  ELSE IF f.size > MAX_SIZE_MB * 1024 * 1024 THEN FALSE
  ELSE TRUE

\* DataUpload handleFile
handleFile(s, f) == IF validateFile(f) THEN [s EXCEPT !.file = {f}] ELSE s

\* DataUpload handleDrop / handleChange: the page shows its drop zone only
\* with a company selected
HandleFileOf(f) ==
  /\ Idle /\ Rendered(Cur) = "/data-upload" /\ selectedCompany # None
  /\ Handler(handleFile(Cur, f))

HandleFile == \E f \in Files : HandleFileOf(f)

\* DataUpload reset
ResetFile ==
  /\ Idle /\ Rendered(Cur) = "/data-upload" /\ selectedCompany # None
  /\ file # {}
  /\ Handler([Cur EXCEPT !.file = {}])

\* DataUpload handleUpload, up to its await
handleUpload(s) ==
  IF s.file = {} \/ s.selectedCompany = None THEN s
  ELSE Call(s, "upload", None)

Upload ==
  /\ Idle /\ Rendered(Cur) = "/data-upload" /\ selectedCompany # None
  /\ file # {}
  /\ Handler(handleUpload(Cur))

----------------------------------------------------------------------------
(* The backend is not part of this source: it is the environment.  It may  *)
(* answer a request with any status and payload that the request's headers *)
(* allow.                                                                  *)

Allowed(r, st) ==
  CASE st = "200" ->
         \/ AuthExempt(r.url)
         \/ /\ r.auth # None
            /\ r.kind \in {"fetch", "upload"} => r.cid # None
    [] st = "401" -> r.kind = "login" \/ ~AuthExempt(r.url)
    [] st = "403company" -> ~AuthExempt(r.url) /\ r.auth # None /\ r.cid # None
    [] st = "403" -> r.kind = "login" \/ (~AuthExempt(r.url) /\ r.auth # None)
    [] st = "500" -> TRUE

\* What a 200 response carries: login, default_company_id, or "badbody" for
\* a body that is not an object or lacks access_token or user; profile, the
\* account of the token; companies, the list; create, the new company's id;
\* fetch, which of its requests were fulfilled.
ResponseData(r, st) ==
  IF st # "200" THEN {None}
  ELSE CASE r.kind = "login" -> Companies \cup {None, "badbody"}
         [] r.kind = "profile" -> {r.auth}
         [] r.kind = "companies" -> SUBSET Companies
         [] r.kind = "create" -> Companies \ companies
         [] r.kind = "fetch" -> FetchOutcomes
         [] OTHER -> {None}

----------------------------------------------------------------------------
(* Response interceptors, in the order they are registered.                *)

\* axiosSetup: 403 handling for company mismatch
CompanyMismatchInterceptor(s, st) ==
  IF st = "403company"
  THEN [s EXCEPT !.lsCompanyId = None, !.reloadPending = TRUE]
  ELSE s

\* A 401 handler that does not look at the path.
AuthResponseInterceptorAnyPath(s, st) ==
  IF st = "401"
  THEN [s EXCEPT !.lsToken = None, !.lsCompanyId = None, !.axAuth = None,
                 !.user = None]
  ELSE s

\* AuthProvider: 401 handling
AuthResponseInterceptor(s, st) ==
  IF st = "401" /\ s.path # "/login"
  THEN [s EXCEPT !.lsToken = None, !.lsCompanyId = None, !.axAuth = None,
                 !.user = None]
  ELSE s

ResponseInterceptors(s, st) ==
  IF st = "200" THEN s
  ELSE AuthResponseInterceptor(CompanyMismatchInterceptor(s, st), st)

\* Both error handlers end in `return Promise.reject(error)`.
Settled(st) == IF st = "200" THEN "fulfilled" ELSE "rejected"

\* A response arrives: the backend has acted, the interceptors run, and the
\* settled promise is handed to the caller.
Receive ==
  /\ Idle
  /\ \E r \in inflight, st \in Statuses :
       /\ Allowed(r, st)
       /\ \E d \in ResponseData(r, st) :
            /\ delivering' = {[req |-> r, status |-> st, data |-> d,
                               settled |-> Settled(st)]}
            /\ Commit(Render(Cur,
                 ResponseInterceptors([Cur EXCEPT !.inflight = @ \ {r}], st)))
  /\ UNCHANGED build

----------------------------------------------------------------------------
(* The callers' continuations; st is how the promise settled.              *)

\* AuthContext login, after its await
loginThen(s, r, st, d) ==
  IF st = "fulfilled" /\ d # "badbody"
  THEN [s EXCEPT !.lsToken = r.arg, !.axAuth = r.arg,
                 !.lsCompanyId = IF d # None THEN d ELSE @,
                 !.user = r.arg, !.tu = TRUE]
  ELSE s

\* Register onSubmit, after its await
registerThen(s, st) ==
  IF st = "fulfilled" THEN [s EXCEPT !.path = "/login"] ELSE s

\* frontend/src/contexts/AuthContext.js checkAuth, after its await
checkAuthThen(s, st, d) ==
  IF st = "fulfilled"
  THEN [s EXCEPT !.user = d, !.tu = TRUE, !.authLoading = FALSE]
  ELSE [s EXCEPT !.lsToken = None, !.lsCompanyId = None, !.axAuth = None,
                 !.user = None, !.authLoading = FALSE]

\* CompanyContext fetchCompanies, after its await
fetchCompaniesThen(s, st, d) ==
  IF st = "fulfilled" THEN [s EXCEPT !.companies = d, !.tc = "fresh"] ELSE s

\* CompanyContext createCompany, after its await
createCompanyThen(s, st, d) ==
  IF st = "fulfilled"
  THEN [s EXCEPT !.companies = @ \cup {d}, !.tc = "same",
                 !.selectedCompany = d, !.ts = TRUE, !.lsCompanyId = d]
  ELSE s

\* DeleteCompanyModal handleDelete, after the DELETE; company and
\* selectedCompany are those of the render the button was clicked in
handleDeleteThen(s, r, st) ==
  IF st = "fulfilled"
  THEN fetchCompanies([s EXCEPT !.lsCompanyId = None], "href")
  ELSE s

Dispatch(s, slice, ok, payload) ==
  IF slice \in ok THEN payload ELSE s[slice]

\* fetchAllFinancialData, after Promise.allSettled; ok holds the fulfilled
\* requests, and the data is what the backend holds for the X-Company-ID the
\* requests carried
fetchAllThen(s, r, st, ok) ==
  LET got == IF st = "fulfilled" THEN ok ELSE {}
  IN [s EXCEPT !.dashboardSummary = Dispatch(s, "dashboardSummary", got, r.cid),
               !.financialHealth = Dispatch(s, "financialHealth", got, r.cid),
               !.riskAnalysis = Dispatch(s, "riskAnalysis", got, r.cid),
               !.creditEvaluation = Dispatch(s, "creditEvaluation", got, r.cid),
               !.loading = FALSE, !.initialLoading = FALSE]

\* Header: listeners of 'dataUploaded' and 'refreshDashboard'
HeaderRefreshEvents(s) ==
  IF LayoutShown(s) THEN refreshAfterUpload(refreshAfterUpload(s)) ELSE s

\* DataUpload handleUpload, after its await
handleUploadThen(s, st) ==
  IF st = "fulfilled" THEN HeaderRefreshEvents(refreshAfterUpload(s)) ELSE s

Continuation(s, r, st, d) ==
  CASE r.kind = "login" -> loginThen(s, r, st, d)
    [] r.kind = "register" -> registerThen(s, st)
    [] r.kind = "profile" -> checkAuthThen(s, st, d)
    [] r.kind = "companies" -> fetchCompaniesThen(s, st, d)
    [] r.kind = "create" -> createCompanyThen(s, st, d)
    [] r.kind = "switch" -> s
    [] r.kind = "delete" -> handleDeleteThen(s, r, st)
    [] r.kind = "fetch" -> fetchAllThen(s, r, st, d)
    [] r.kind = "upload" -> handleUploadThen(s, st)

\* DeleteCompanyModal: window.location.href = '/dashboard' once its
\* fetchCompanies has settled
RedirectsHome(r) == r.kind = "companies" /\ r.arg = "href"

Continue ==
  /\ \E dl \in delivering :
       /\ ~RedirectsHome(dl.req)
       /\ Commit(Render(Cur, Flush(Continuation(Cur, dl.req, dl.settled, dl.data))))
  /\ delivering' = {}
  /\ UNCHANGED build

ContinueHome ==
  /\ \E dl \in delivering : RedirectsHome(dl.req)
  /\ PageLoad("/dashboard")

\* The reload that the company-mismatch interceptor asked for.
DoReload ==
  /\ delivering = {} /\ reloadPending
  /\ PageLoad(path)

Next ==
  \/ Reload \/ OpenUrl \/ Login \/ Register \/ GoLink \/ Logout
  \/ SelectCompany \/ CreateCompany \/ TypeConfirmText \/ DeleteCompany
  \/ HandleFile \/ ResetFile \/ Upload
  \/ Receive \/ Continue \/ ContinueHome \/ DoReload

Spec == Init /\ [][Next]_vars

\* The login flow with overlapping submissions.
LoginNext ==
  \/ Login \/ LoginAgain \/ GoLink \/ Logout \/ Reload
  \/ Receive \/ Continue \/ DoReload

LoginSpec == Init /\ [][LoginNext]_vars

----------------------------------------------------------------------------
(* loadCachedData and clearCache on their own: applied, at any company id  *)
(* or none, to the store as FinancialDataProvider constructs it, over any  *)
(* localStorage entries.                                                   *)

CacheInit ==
  /\ build = "frontend"
  /\ delivering = {}
  /\ cache \in [Companies -> Entries]
  /\ LET m == Blank("/", None, None, cache)
     IN /\ path = m.path
        /\ lsToken = m.lsToken
        /\ lsCompanyId = m.lsCompanyId
        /\ axAuth = m.axAuth
        /\ user = m.user
        /\ authLoading = m.authLoading
        /\ companies = m.companies
        /\ selectedCompany = m.selectedCompany
        /\ initialLoading = m.initialLoading
        /\ loading = m.loading
        /\ dashboardSummary = m.dashboardSummary
        /\ financialHealth = m.financialHealth
        /\ riskAnalysis = m.riskAnalysis
        /\ creditEvaluation = m.creditEvaluation
        /\ forecasting = m.forecasting
        /\ benchmarking = m.benchmarking
        /\ monthlyData = m.monthlyData
        /\ fdSelectedCompany = m.fdSelectedCompany
        /\ file = m.file
        /\ confirmText = m.confirmText
        /\ cacheHit = m.cacheHit
        /\ inflight = m.inflight
        /\ reloadPending = m.reloadPending

LoadCachedOf(companyId) ==
  /\ LET c == loadCachedData(Cur, companyId)
     IN Commit([c EXCEPT !.cacheHit = c.ret])
  /\ UNCHANGED <<build, delivering>>

LoadCached == \E companyId \in Companies \cup {None} : LoadCachedOf(companyId)

ClearCache ==
  /\ \E companyId \in Companies : Commit(clearCache(Cur, companyId))
  /\ UNCHANGED <<build, delivering>>

CacheNext == LoadCached \/ ClearCache

CacheSpec == CacheInit /\ [][CacheNext]_vars

----------------------------------------------------------------------------
(* Properties.                                                             *)

FetchPending == \E r \in inflight : r.kind = "fetch"

\* C1: every request, other than login and register, carries as
\* X-Company-ID the currentCompanyId that was stored when it was sent, if
\* one was, and as Authorization the token that was stored, if one was.
C1_StoredHeadersCarried ==
  \A r \in inflight :
    ~AuthExempt(r.url) =>
      /\ r.sentCompanyId # None => r.cid = r.sentCompanyId
      /\ r.sentToken # None => r.auth = r.sentToken

C1_Witness ==
  \E r \in inflight :
    /\ ~AuthExempt(r.url)
    /\ r.sentCompanyId # None /\ r.cid = r.sentCompanyId
    /\ r.sentToken # None /\ r.auth = r.sentToken

\* C2: with a user logged in and a company selected, the stored
\* currentCompanyId is the selected company's id (between browser tasks).
C2_SelectedIsStored ==
  (Idle /\ user # None /\ selectedCompany # None) => lsCompanyId = selectedCompany

\* C3: with no financial-data request in flight and a company selected,
\* every slice that is held came from a request that carried the selected
\* company's id as X-Company-ID.
C3_SlicesOfSelectedCompany ==
  (Idle /\ ~FetchPending /\ selectedCompany # None) =>
    /\ dashboardSummary \in {None, selectedCompany}
    /\ financialHealth \in {None, selectedCompany}
    /\ riskAnalysis \in {None, selectedCompany}
    /\ creditEvaluation \in {None, selectedCompany}

\* The startup auth check ends: within the page load, when checkAuth does
\* not ask the backend, or with the backend's 200 to GET /api/user/profile.
ProfileAccepted ==
  /\ \E dl \in delivering : dl.req.kind = "profile" /\ dl.status = "200"
  /\ delivering' = {}

\* C4: a page reloaded with a token in localStorage still has that token
\* after the startup auth check, and the token's user is logged in.
C4_TokenPersistsAfterRefresh ==
  [][(lsToken # None /\ ~authLoading' /\ (Reload \/ ProfileAccepted))
       => (lsToken' = lsToken /\ user' = lsToken)]_vars

Rejected401 ==
  /\ delivering = {}
  /\ \E dl \in delivering' : dl.status = "401"

\* C5: a 401 response arriving while the path is not '/login' removes the
\* token, the company id and the default Authorization header and sets user
\* to null; arriving on '/login' it changes none of them; either way the
\* caller gets the rejection.
C5_UnauthorizedLogsOut ==
  [][Rejected401 =>
       /\ \A dl \in delivering' : dl.settled = "rejected"
       /\ IF path # "/login"
          THEN lsToken' = None /\ lsCompanyId' = None /\ axAuth' = None
               /\ user' = None
          ELSE UNCHANGED <<lsToken, lsCompanyId, axAuth, user>>]_vars

C5_Witness ==
  \E dl \in delivering :
    /\ dl.status = "401" /\ dl.settled = "rejected"
    /\ dl.req.sentToken # None /\ dl.req.sentCompanyId # None
    /\ lsToken = None /\ lsCompanyId = None /\ axAuth = None /\ user = None

\* C6: a login or register request carries neither an Authorization header
\* nor an X-Company-ID header.
C6_AuthRequestsBare ==
  \A r \in inflight : AuthExempt(r.url) => (r.auth = None /\ r.cid = None)

C6_Witness ==
  /\ companies # {}
  /\ \E r \in inflight : r.kind = "login" /\ r.auth = None /\ r.cid = None

CompanyMismatchArrives ==
  /\ delivering = {}
  /\ \E dl \in delivering' : dl.status = "403company"

OtherErrorArrives ==
  /\ delivering = {}
  /\ \E dl \in delivering' : dl.status \in {"403", "500"}

\* C7: a 403 company-mismatch response removes the stored company id, asks
\* for a reload and is rejected to its caller, leaving the token; the
\* reload then leaves the token stored and, when its auth check ends
\* without asking the backend, the user logged in.  Another error response
\* leaves the stored company id alone.
C7_CompanyMismatchKeepsSession ==
  [][/\ CompanyMismatchArrives =>
          /\ lsCompanyId' = None /\ reloadPending' /\ lsToken' = lsToken
          /\ \A dl \in delivering' : dl.settled = "rejected"
     /\ OtherErrorArrives => lsCompanyId' = lsCompanyId
     /\ (DoReload /\ lsToken # None /\ ~authLoading') =>
          (lsToken' = lsToken /\ user' = lsToken)]_vars

\* C8: with user null only the loading screen, /login or /register is
\* shown, and the path is one of these two once the auth check has ended;
\* while the auth check runs only the loading screen is shown.
C8_NoPageWithoutUser ==
  /\ user = None => Rendered(Cur) \in {"loading", "/login", "/register"}
  /\ (user = None /\ ~authLoading) => path \in AuthPaths
  /\ authLoading => Rendered(Cur) = "loading"

C8_Witness ==
  /\ user = None /\ ~authLoading
  /\ companies # {} /\ selectedCompany # None
  /\ Rendered(Cur) = "/login"

\* C9: for a logged-in user the loading screen ends: once no response and
\* no continuation is outstanding, initialLoading is false.
C9_LoadingEnds ==
  (Idle /\ inflight = {} /\ user # None) => ~initialLoading

UploadSucceeds ==
  /\ \E dl \in delivering : dl.req.kind = "upload" /\ dl.settled = "fulfilled"
  /\ delivering' = {}

\* C10: when an upload has succeeded with a company selected, a
\* fetchAllFinancialData for that company has been started.
C10_UploadRefetches ==
  [][(UploadSucceeds /\ user # None /\ selectedCompany # None) =>
       \E r \in inflight' : r.kind = "fetch" /\ r.arg = selectedCompany]_vars

\* The limits as the upload rules state them.
PassesLimits(f) ==
  /\ \E ext \in ALLOWED_EXTS : endsWith(toLowerCase(f.name), ext)
  /\ \/ f.type \in ALLOWED_TYPES
     \/ endsWith(toLowerCase(f.name), <<".", "p", "d", "f">>)
  /\ f.size <= 10 * 1024 * 1024

UploadIssued == \E r \in inflight' \ inflight : r.kind = "upload"

\* C11: a POST /api/data/upload is issued only with a company selected and
\* a held file that is within the limits (extension of the lower-cased
\* name, MIME type or .pdf, size at most 10 MB); offering a file outside the
\* limits leaves the held file as it was.
C11_UploadLimitsEnforced ==
  [][/\ UploadIssued =>
          /\ selectedCompany # None /\ file # {}
          /\ \A f \in file : PassesLimits(f)
     /\ \A f \in Files : (file' # file /\ ~PassesLimits(f)) => ~HandleFileOf(f)]_vars

C11_Witness ==
  /\ \E f \in file : f.size = 10 * 1024 * 1024 /\ f.name # toLowerCase(f.name)
  /\ \E r \in inflight : r.kind = "upload"

DeleteIssued == \E r \in inflight' \ inflight : r.kind = "delete"

\* C12: a DELETE /api/company/{id} is issued only when the typed
\* confirmation text is exactly the name of the company being deleted;
\* with any other text handleDelete sends nothing and changes nothing.
C12_DeleteNeedsExactName ==
  [][/\ DeleteIssued =>
          (selectedCompany # None /\ confirmText = CompanyName(selectedCompany))
     /\ (selectedCompany # None /\ confirmText # CompanyName(selectedCompany))
          => handleDelete(Cur) = Cur]_vars

C12_Witness ==
  /\ selectedCompany # None /\ confirmText = CompanyName(selectedCompany)
  /\ \E r \in inflight : r.kind = "delete"

\* The entry under the key of company id is one loadCachedData uses: it
\* parses to a timestamp and data, and its age is less than 5 minutes.
FreshEntry(companyId) ==
  /\ companyId # None
  /\ cache[companyId].json = "object"
  /\ cache[companyId].timestamp.valid
  /\ Now - cache[companyId].timestamp.ms < 300000

SevenSlices ==
  <<dashboardSummary, financialHealth, riskAnalysis, creditEvaluation,
    forecasting, benchmarking, monthlyData>>

\* C13: loadCachedData(id) returns true exactly when the entry under the
\* key of that id is less than 5 minutes old (an entry that is not JSON, or
\* not an object with timestamp and data, counting as unparsable); it then
\* dispatches the seven slices of that entry and sets initialLoading to
\* false; otherwise it dispatches nothing and does not return true.
C13_CacheUsedWhenFresh ==
  [][\A id \in Companies \cup {None} :
       LoadCachedOf(id) =>
         IF FreshEntry(id)
         THEN /\ cacheHit' = "true"
              /\ dashboardSummary' = cache[id].data.dashboard
              /\ financialHealth' = cache[id].data.health
              /\ riskAnalysis' = cache[id].data.risk
              /\ creditEvaluation' = cache[id].data.credit
              /\ forecasting' = cache[id].data.forecast
              /\ benchmarking' = cache[id].data.benchmark
              /\ monthlyData' = cache[id].data.monthly
              /\ ~initialLoading'
         ELSE /\ cacheHit' # "true"
              /\ UNCHANGED <<SevenSlices, initialLoading>>]_vars

C13_Witness ==
  /\ cacheHit = "true" /\ ~initialLoading
  /\ \E id \in Companies :
       /\ cache[id].json = "object" /\ cache[id].timestamp.ms = Now - 299999
       /\ dashboardSummary = cache[id].data.dashboard
       /\ monthlyData = cache[id].data.monthly
       /\ \E other \in Companies \ {id} :
            cache[other].json = "object" /\ cache[other].data # cache[id].data

LoginRejectedArrives ==
  /\ delivering = {}
  /\ \E dl \in delivering' : dl.req.kind = "login" /\ dl.settled = "rejected"

LoginFailureReturns ==
  /\ \E dl \in delivering :
       /\ dl.req.kind = "login"
       /\ dl.settled = "rejected" \/ dl.data = "badbody"
  /\ delivering' = {}

\* C14: a login that is rejected with any status, or answered with a body
\* that is not an object or lacks access_token or user, leaves the token,
\* the company id, the default Authorization header and user unchanged,
\* both when the response arrives and when login returns.
C14_FailedLoginChangesNothing ==
  [][(LoginRejectedArrives \/ LoginFailureReturns) =>
       UNCHANGED <<lsToken, lsCompanyId, axAuth, user>>]_vars

\* fetchCompanies returns with the list that was fetched with the token of
\* the user who is logged in.
CompaniesLoadedForUser ==
  /\ \E dl \in delivering :
       /\ dl.req.kind = "companies" /\ dl.settled = "fulfilled"
       /\ user' # None /\ dl.req.auth = user'
  /\ delivering' = {}

\* C15: once the company list fetched for the logged-in user is loaded,
\* selectedCompany is null or a member of that list; a company selected in
\* a previous user's session is not selected any more.
C15_SelectedIsOwnCompany ==
  [][CompaniesLoadedForUser =>
       (selectedCompany' = None \/ selectedCompany' \in companies')]_vars
====
